---- MODULE Spec2Model ----
(***************************************************************************)
(* The peerslave main thread of peer/src/peerslave.c: the option handling  *)
(* that takes the registry mutexes, the switch to idle, and the slave loop *)
(* (engine idle timeout, zombie timeout, engine start, job execution,      *)
(* result send, cleanup).  The threads the file starts but does not define *)
(* (tcpserver, discover, expire) and announce_once() are modelled from the *)
(* specification text.  The supervisor loop of the parent process (lines   *)
(* 288-352), which forks the slaves and restarts them, is a specification  *)
(* of its own (SupSpec).                                                   *)
(*                                                                         *)
(* The program counter pc of the main thread is named after the source     *)
(* line the thread is about to execute ("L567" = about to call engOpen).   *)
(***************************************************************************)
EXTENDS Integers, Sequences, FiniteSets, TLC

VARIABLES
    pc,             \* position of the main thread
    cfgStep,        \* index of the option block being handled (lines 367-475)
    held,           \* registry mutexes held by the main thread
    status,         \* host->status
    current,        \* host->current
    timavail,       \* host->timavail
    joblist,        \* the job queue (head first)
    peerlist,       \* ids of the peers in the peer table
    intake,         \* position of the intake connection of the tcpserver thread
    now,            \* time(NULL)
    matlabRunning, matlabFinished, engineFailed, engineAborted, jobFailed,
    timallow,
    job,            \* the entry the local pointer job refers to
    jobid, peerid,
    argin, argout, options,
    engWs,          \* the variables of the engine workspace
    found, peer, hasuds, hastcp,
    server, arg, opt, def, handshake, success,
    wire,           \* frames written on the connection of the current attempt
    connState,      \* the connection opened by the current attempt
    annc,           \* announce_once() calls since the last write of host->status
    sendDone,       \* the result-send attempt of this iteration reached cleanup
    exitValue,      \* value returned by main, or passed to exit()
    cconf,          \* index of the configuration cconf points to
    pid,            \* pid[c] is the field pid of configuration c
    hostId,         \* host->id
    children        \* the processes forked so far; children[p] has pid p

vars == << pc, cfgStep, held, status, current, timavail, joblist, peerlist, intake,
           now, matlabRunning, matlabFinished, engineFailed, engineAborted,
           jobFailed, timallow, job, jobid, peerid, argin, argout, options, engWs,
           found, peer,
           hasuds, hastcp, server, arg, opt, def, handshake, success, wire,
           connState, annc, sendDone, exitValue, cconf, pid, hostId, children >>

hostVars   == << status, current, timavail >>
engineVars == << matlabRunning, matlabFinished, engineFailed, engineAborted, jobFailed >>
jobVars    == << job, jobid, peerid, timallow, argin, argout, options, engWs >>
sendVars   == << found, peer, hasuds, hastcp, server, arg, opt, def, handshake,
                 success, wire, connState >>
envVars    == << joblist, peerlist, intake, now >>
ghostVars  == << annc, sendDone >>
supVars    == << cconf, pid, hostId, children >>

----------------------------------------------------------------------------
(* Program constants *)

ENGINETIMEOUT == 180
ZOMBIETIMEOUT == 900

enginetimeout == ENGINETIMEOUT
zombietimeout == ZOMBIETIMEOUT


----------------------------------------------------------------------------
(* Bounds of the model *)

\* length of the job queue the intake fills
MaxQueue == 2
\* number of peers in the peer table
MaxPeers == 1
\* the clock stops at Epoch + MaxTime
MaxTime == 1800

\* width in bits of the unsigned and int types of the model (TLC evaluates
\* integers in 32 bits and cannot hold 2^32)
WordBits == 16

\* "inf", the largest unsigned value
UINT_MAX == 2^WordBits - 1

\* the clock starts at a positive time and advances in steps of TickLen
Epoch   == 1
TickLen == ZOMBIETIMEOUT

\* numpeer, the number of configurations in the file
NumPeer == 2
\* a child terminates only while fewer than MaxChildren have been forked
MaxChildren == 4
\* host->id as peerinit() leaves it
FirstId == 41

Mutexes == {"mutexhost", "mutexjoblist", "mutexpeerlist",
            "mutexsmartmem", "mutexsmartcpu", "mutexsmartshare"}

Statuses == {"IDLE", "BUSY", "ZOMBIE"}

\* host->name of this slave
HostName == "here"

\* the peers that may submit jobs, by host->id: peer 1 runs on this host and
\* has a unix domain socket and a tcp port, peer 2 runs elsewhere and has
\* both as well, peer 3 has announced neither
PeerIds == {1, 2, 3}
PeerName(p)   == IF p = 2 THEN "there" ELSE HostName
PeerSocket(p) == IF p = 1 THEN "/tmp/peer1" ELSE IF p = 2 THEN "/tmp/peer2" ELSE ""
PeerPort(p)   == IF p = 1 THEN 1701 ELSE IF p = 2 THEN 1702 ELSE 0

\* A buffer is the sequence of its elements; a pointer to no buffer is NULL.
\* A local that is read before it is assigned may hold anything (Garbage).
NULL    == << >>
Garbage == << "?" >>

\* the jobs the intake may enqueue: submitter (job->host), definition
\* (job->job), serialized arguments (job->arg) and options (job->opt)
Jobs == { [hostid |-> 1, name |-> PeerName(1), jobid |-> 7, timreq |-> 10,
           arg |-> "A", opt |-> << >>],
          [hostid |-> 2, name |-> PeerName(2), jobid |-> 8, timreq |-> 0,
           arg |-> "B", opt |-> <<"k", "v">>],
          [hostid |-> 3, name |-> PeerName(3), jobid |-> 7, timreq |-> 10,
           arg |-> "A", opt |-> << >>] }

NoJob == [hostid |-> 0, name |-> "", jobid |-> 0, timreq |-> 0, arg |-> "",
          opt |-> << >>]

\* values of --timavail
TimAvails == {20}

----------------------------------------------------------------------------
(* host->current *)

\* bzero(&(host->current), sizeof(current_t))
ZeroCurrent == [hostid |-> 0, jobid |-> 0, name |-> "", timreq |-> 0]

\* lines 599-606: the description of job j in host->current
CurrentOf(j) == [hostid |-> j.hostid, jobid |-> j.jobid, name |-> j.name,
                 timreq |-> j.timreq]

----------------------------------------------------------------------------
(* Mutexes of the main thread *)

Lock(m)   == m \notin held /\ held' = held \cup {m}
Unlock(m) == m \in held /\ held' = held \ {m}

----------------------------------------------------------------------------
(* announce_once(): one immediate broadcast of the host descriptor *)

AnnounceOnce == annc' = IF annc < 2 THEN annc + 1 ELSE 2

----------------------------------------------------------------------------
(* The engine workspace: the variables engPutVariable() stores and         *)
(* engEvalString() computes.                                               *)

EmptyWs == [argin |-> NULL, options |-> NULL, argout |-> NULL]

\* [argout, options] = peerexec(argin, options): the result names its input
PeerExec(ws) == [ws EXCEPT !.argout  = << "result" >> \o ws.argin,
                           !.options = << "done" >> \o ws.argin]

----------------------------------------------------------------------------
(* C integer conversions of the watchdog limit (int timallow, line 85)     *)

SignBit == 2^(WordBits - 1)
Modulus == 2^WordBits

\* conversion of an unsigned value to int
ToInt(x) == LET w == x % Modulus IN IF w >= SignBit THEN w - Modulus ELSE w

\* conversion of an int to unsigned
ToUnsigned(i) == i % Modulus

\* lines 609-611: timallow = 3*timreq; if (timavail < timallow) timallow = timavail
TimAllow(timreq, avail) ==
    LET t == ToInt(3 * timreq)
    IN  IF avail < ToUnsigned(t) THEN ToInt(avail) ELSE t

----------------------------------------------------------------------------
(* The configurations and the host id of a slave.  The slave is a child of  *)
(* the supervisor (or, with one configuration on a platform without fork,   *)
(* the process itself); it has the copies fork() gave it.                   *)

\* the configurations of the file, in list order
Configs == 1..NumPeer

\* the model has the first child run the slave loop: cconf is the first
\* configuration, no pid is recorded yet, host->id has been incremented once
SlaveOfFirstConfig ==
    /\ cconf = 1
    /\ pid = [c \in Configs |-> 0]
    /\ hostId = FirstId + 1
    /\ children = << >>

----------------------------------------------------------------------------
Init ==
    /\ pc = "config"
    /\ cfgStep = 1
    /\ held = {}
    /\ status \in {"ZOMBIE", "IDLE"}
    /\ current = ZeroCurrent
    /\ timavail = UINT_MAX
    /\ joblist = << >>
    /\ peerlist = {}
    /\ intake = "idle"
    /\ now = Epoch
    /\ matlabRunning = 0
    /\ matlabFinished = 0
    /\ engineFailed = 0
    /\ engineAborted = 0
    /\ jobFailed = 0
    /\ timallow = 0
    /\ job = NoJob
    /\ jobid = 0
    /\ peerid = 0
    /\ argin = NULL
    /\ argout = NULL
    /\ options = NULL
    /\ engWs = EmptyWs
    /\ found = 0
    /\ peer = 0
    /\ hasuds = 0
    /\ hastcp = 0
    /\ server \in {0, 7}
    /\ arg \in {NULL, Garbage}
    /\ opt \in {NULL, Garbage}
    /\ def = NULL
    /\ handshake = 0
    /\ success = 0
    /\ wire = << >>
    /\ connState = "none"
    /\ annc = 0
    /\ sendDone = FALSE
    /\ exitValue = -1
    /\ SlaveOfFirstConfig


----------------------------------------------------------------------------
(* Threads other than the main thread.  They are started at lines 482-520  *)
(* and take a registry mutex only for the duration of one step.            *)

ThreadsStarted == pc # "config"

\* intake step 2: the submitter is accepted only while this slave is idle
IntakeAccept ==
    /\ ThreadsStarted
    /\ intake = "idle"
    /\ "mutexhost" \notin held
    /\ status = "IDLE"
    /\ intake' = "accepted"
    /\ UNCHANGED << pc, cfgStep, held, hostVars, joblist, peerlist, now,
                    engineVars, jobVars, sendVars, ghostVars, exitValue, supVars >>

\* intake step 6: the job is appended to the queue and the connection closed
IntakeEnqueue(j) ==
    /\ intake = "accepted"
    /\ "mutexjoblist" \notin held
    /\ Len(joblist) < MaxQueue
    /\ joblist' = Append(joblist, j)
    /\ intake' = "idle"
    /\ UNCHANGED << pc, cfgStep, held, hostVars, peerlist, now,
                    engineVars, jobVars, sendVars, ghostVars, exitValue, supVars >>

\* a short read or a refused frame ends the connection without a job
IntakeAbort ==
    /\ intake = "accepted"
    /\ intake' = "idle"
    /\ UNCHANGED << pc, cfgStep, held, hostVars, joblist, peerlist, now,
                    engineVars, jobVars, sendVars, ghostVars, exitValue, supVars >>

\* discover: an announcement of peer p is entered in the peer table
Discover(p) ==
    /\ ThreadsStarted
    /\ "mutexpeerlist" \notin held
    /\ p \notin peerlist
    /\ Cardinality(peerlist) < MaxPeers
    /\ peerlist' = peerlist \cup {p}
    /\ UNCHANGED << pc, cfgStep, held, hostVars, joblist, intake, now,
                    engineVars, jobVars, sendVars, ghostVars, exitValue, supVars >>

\* expire: peer p has not been seen for too long and is removed
Expire(p) ==
    /\ ThreadsStarted
    /\ "mutexpeerlist" \notin held
    /\ p \in peerlist
    /\ peerlist' = peerlist \ {p}
    /\ UNCHANGED << pc, cfgStep, held, hostVars, joblist, intake, now,
                    engineVars, jobVars, sendVars, ghostVars, exitValue, supVars >>

\* The positions at which the next step of the main thread reads the clock.
\* Time that passes elsewhere is seen by the program at its next read only.
ClockReadPcs == {"L535", "L547", "L571", "L916"}

Tick ==
    /\ pc \in ClockReadPcs
    /\ now + TickLen <= Epoch + MaxTime
    /\ now' = now + TickLen
    /\ UNCHANGED << pc, cfgStep, held, hostVars, joblist, peerlist, intake,
                    engineVars, jobVars, sendVars, ghostVars, exitValue, supVars >>

----------------------------------------------------------------------------
(* Lines 367-475: the options of the configuration, in source order.  Each *)
(* block that is present takes one mutex around its assignment; the        *)
(* --memavail block takes mutexhost and then mutexsmartmem.                *)

CfgBlocks == << [opt |-> "memavail",   mutex |-> "mutexhost"],
                [opt |-> "memavail",   mutex |-> "mutexsmartmem"],
                [opt |-> "cpuavail",   mutex |-> "mutexhost"],
                [opt |-> "timavail",   mutex |-> "mutexhost"],
                [opt |-> "hostname",   mutex |-> "mutexhost"],
                [opt |-> "group",      mutex |-> "mutexhost"],
                [opt |-> "smartmem",   mutex |-> "mutexsmartmem"],
                [opt |-> "smartcpu",   mutex |-> "mutexsmartcpu"],
                [opt |-> "smartshare", mutex |-> "mutexsmartshare"] >>

\* the option of block cfgStep is not given (the configuration of the
\* model always gives --timavail; the second memavail block goes with the first)
CfgSkip ==
    /\ pc = "config" /\ held = {}
    /\ cfgStep <= Len(CfgBlocks)
    /\ CfgBlocks[cfgStep].opt # "timavail"
    /\ cfgStep # 2
    /\ cfgStep' = IF cfgStep = 1 THEN 3 ELSE cfgStep + 1
    /\ UNCHANGED << pc, held, hostVars, envVars, engineVars, jobVars, sendVars,
                    ghostVars, exitValue, supVars >>

CfgLock ==
    /\ pc = "config" /\ held = {}
    /\ cfgStep <= Len(CfgBlocks)
    /\ Lock(CfgBlocks[cfgStep].mutex)
    /\ UNCHANGED << pc, cfgStep, hostVars, envVars, engineVars, jobVars, sendVars,
                    ghostVars, exitValue, supVars >>

\* the assignment and the unlock; of the values assigned the model keeps timavail
CfgUnlock ==
    /\ pc = "config" /\ held # {}
    /\ Unlock(CfgBlocks[cfgStep].mutex)
    /\ IF CfgBlocks[cfgStep].opt = "timavail"
          THEN \E t \in TimAvails : timavail' = t
          ELSE timavail' = timavail
    /\ cfgStep' = cfgStep + 1
    /\ UNCHANGED << pc, status, current, envVars, engineVars, jobVars, sendVars,
                    ghostVars, exitValue, supVars >>

\* lines 482-520: the server, announce, discover and expire threads are started
StartThreads ==
    /\ pc = "config" /\ held = {}
    /\ cfgStep > Len(CfgBlocks)
    /\ pc' = "L522"
    /\ UNCHANGED << cfgStep, held, hostVars, envVars, engineVars, jobVars, sendVars,
                    ghostVars, exitValue, supVars >>

----------------------------------------------------------------------------
(* A write of host->status and host->current under mutexhost followed by   *)
(* announce_once(), as at lines 522-529, 549-556, 574-581 and 909-916.     *)

Goto(l) == pc' = l

\* pthread_mutex_lock(&mutexhost); host->status = s
SetStatus(at, s, next) ==
    /\ pc = at
    /\ Lock("mutexhost")
    /\ status' = s
    /\ annc' = 0
    /\ Goto(next)

\* a variant of ClearCurrent that leaves host->current as it is
ClearCurrentKeeps(at, next) ==
    /\ pc = at
    /\ Unlock("mutexhost")
    /\ Goto(next)
    /\ UNCHANGED << cfgStep, hostVars, envVars, engineVars, jobVars, sendVars,
                    ghostVars, exitValue, supVars >>

\* bzero(&(host->current), sizeof(current_t)); pthread_mutex_unlock(&mutexhost)
ClearCurrent(at, next) ==
    /\ pc = at
    /\ current' = ZeroCurrent
    /\ Unlock("mutexhost")
    /\ Goto(next)
    /\ UNCHANGED << cfgStep, status, timavail, envVars, engineVars, jobVars,
                    sendVars, ghostVars, exitValue, supVars >>

\* a variant of Announce that does not call announce_once()
AnnounceSkipped(at, next) ==
    /\ pc = at
    /\ annc' = annc
    /\ Goto(next)

\* announce_once()
Announce(at, next) ==
    /\ pc = at
    /\ AnnounceOnce
    /\ Goto(next)

\* lines 522-529: switch the peer to idle slave
InitIdle ==
    \/ /\ SetStatus("L522", "IDLE", "L526")
       /\ UNCHANGED << cfgStep, current, timavail, envVars, engineVars, jobVars,
                       sendVars, sendDone, exitValue, supVars >>
    \/ ClearCurrent("L526", "L529")
    \/ /\ Announce("L529", "L532")
       /\ UNCHANGED << cfgStep, held, hostVars, envVars, engineVars, jobVars,
                       sendVars, sendDone, exitValue, supVars >>

----------------------------------------------------------------------------
(* The slave loop, lines 532-926 *)

\* line 532: while (!engineAborted); line 928: return engineAborted
LoopTest ==
    /\ pc = "L532"
    /\ IF engineAborted # 0
          THEN /\ Goto("done")
               /\ exitValue' = engineAborted
               /\ UNCHANGED << sendDone, connState, found >>
          ELSE /\ Goto("L535")
               /\ exitValue' = exitValue
               /\ sendDone' = FALSE
               /\ connState' = "none"
               /\ found' = 0
    /\ UNCHANGED << cfgStep, held, hostVars, envVars, engineVars, jobVars,
                    peer, hasuds, hastcp, server, arg, opt, def, handshake, success,
                    wire, annc, supVars >>

\* a variant of EngineIdleExpired that compares with the zombie timeout
EngineIdleExpiredLate == matlabRunning # 0 /\ now - matlabFinished > zombietimeout

\* line 535: the engine has been idle for longer than the engine timeout
EngineIdleExpired == matlabRunning # 0 /\ now - matlabFinished > enginetimeout

\* lines 535-544: switch the engine off after being idle for a certain time;
\* engClose() may succeed or fail, matlabRunning is cleared in both cases
EngineTimeout ==
    /\ pc = "L535"
    /\ IF EngineIdleExpired
          THEN \E rc \in {0, 1} : matlabRunning' = 0
          ELSE matlabRunning' = matlabRunning
    /\ Goto("L547")
    /\ UNCHANGED << cfgStep, held, hostVars, envVars, matlabFinished, engineFailed,
                    engineAborted, jobFailed, jobVars, sendVars, ghostVars,
                    exitValue, supVars >>

\* a variant of ZombieExpired that compares with >=
ZombieExpiredEarly == engineFailed # 0 /\ now - engineFailed >= zombietimeout

\* line 547: the zombie timeout has passed since the engine failed to start
ZombieExpired == engineFailed # 0 /\ now - engineFailed > zombietimeout

\* lines 546-559: switch from zombie to idle slave after waiting a certain time
ZombieTimeout ==
    \/ /\ pc = "L547"
       /\ Goto(IF ZombieExpired THEN "L549" ELSE "L561")
       /\ UNCHANGED << cfgStep, held, hostVars, envVars, engineVars, jobVars,
                       sendVars, ghostVars, exitValue, supVars >>
    \/ /\ SetStatus("L549", "IDLE", "L553")
       /\ UNCHANGED << cfgStep, current, timavail, envVars, engineVars, jobVars,
                       sendVars, sendDone, exitValue, supVars >>
    \/ ClearCurrent("L553", "L556")
    \/ /\ Announce("L556", "L532")
       /\ engineFailed' = 0
       /\ UNCHANGED << cfgStep, held, hostVars, envVars, matlabRunning,
                       matlabFinished, engineAborted, jobFailed, jobVars, sendVars,
                       sendDone, exitValue, supVars >>

\* jobcount(): the number of queued jobs
jobcount == Len(joblist)

\* lines 561-564 and 922-924: if there is a job to be executed start the
\* engine unless it is running; if there is none, sleep
JobCount ==
    /\ pc = "L561"
    /\ Goto(IF jobcount > 0
               THEN IF matlabRunning = 0 THEN "L567" ELSE "L591"
               ELSE "L532")
    /\ UNCHANGED << cfgStep, held, hostVars, envVars, engineVars, jobVars,
                    sendVars, ghostVars, exitValue, supVars >>

\* a variant of EngineStart that keeps engineFailed when engOpen() succeeds
EngineStartKeepsFailed ==
    \/ /\ pc = "L567"
       /\ \/ /\ Goto("L571")
             /\ UNCHANGED << engineFailed, matlabRunning >>
          \/ /\ engineFailed' = engineFailed
             /\ matlabRunning' = 1
             /\ Goto("L591")
       /\ UNCHANGED << cfgStep, held, hostVars, envVars, matlabFinished,
                       engineAborted, jobFailed, jobVars, sendVars, ghostVars,
                       exitValue, supVars >>
    \/ /\ SetStatus("L571", "ZOMBIE", "L578")
       /\ engineFailed' = now
       /\ matlabRunning' = 0
       /\ UNCHANGED << cfgStep, current, timavail, envVars, matlabFinished,
                       engineAborted, jobFailed, jobVars, sendVars, sendDone,
                       exitValue, supVars >>
    \/ ClearCurrent("L578", "L581")
    \/ /\ Announce("L581", "L676")
       /\ UNCHANGED << cfgStep, held, hostVars, envVars, engineVars, jobVars,
                       sendVars, sendDone, exitValue, supVars >>

\* lines 567-587: start the matlab engine.  engOpen() returns NULL (L571:
\* note the time, switch to zombie) or an engine (lines 584-585)
EngineStart ==
    \/ /\ pc = "L567"
       /\ \/ /\ Goto("L571")
             /\ UNCHANGED << engineFailed, matlabRunning >>
          \/ /\ engineFailed' = 0
             /\ matlabRunning' = 1
             /\ Goto("L591")
       /\ UNCHANGED << cfgStep, held, hostVars, envVars, matlabFinished,
                       engineAborted, jobFailed, jobVars, sendVars, ghostVars,
                       exitValue, supVars >>
    \/ /\ SetStatus("L571", "ZOMBIE", "L578")
       /\ engineFailed' = now
       /\ matlabRunning' = 0
       /\ UNCHANGED << cfgStep, current, timavail, envVars, matlabFinished,
                       engineAborted, jobFailed, jobVars, sendVars, sendDone,
                       exitValue, supVars >>
    \/ ClearCurrent("L578", "L581")
    \/ /\ Announce("L581", "L676")
       /\ UNCHANGED << cfgStep, held, hostVars, envVars, engineVars, jobVars,
                       sendVars, sendDone, exitValue, supVars >>

\* lines 589-592: the engine is running; take mutexjoblist, job = joblist
TakeJob ==
    /\ pc = "L591"
    /\ Lock("mutexjoblist")
    /\ job' = joblist[1]
    /\ Goto("L594")
    /\ UNCHANGED << cfgStep, hostVars, envVars, engineVars, jobid, peerid, timallow,
                    argin, argout, options, engWs, sendVars, ghostVars, exitValue, supVars >>

\* a variant of SwitchBusy that writes host->status and host->current in two
\* separate critical sections on mutexhost
SwitchBusyTwoSections ==
    \/ /\ pc = "L594"
       /\ "mutexhost" \notin held
       /\ status' = "BUSY"
       /\ annc' = 0
       /\ Goto("L598")
       /\ UNCHANGED << cfgStep, held, current, timavail, envVars, engineVars,
                       jobVars, sendVars, sendDone, exitValue, supVars >>
    \/ /\ pc = "L598"
       /\ "mutexhost" \notin held
       /\ current' = CurrentOf(job)
       /\ timallow' = TimAllow(job.timreq, timavail)
       /\ Goto("L615")
       /\ UNCHANGED << cfgStep, held, status, timavail, envVars, engineVars, job,
                       jobid, peerid, argin, argout, options, engWs, sendVars,
                       ghostVars, exitValue, supVars >>
    \/ /\ Announce("L615", "L617")
       /\ UNCHANGED << cfgStep, held, hostVars, envVars, engineVars, jobVars,
                       sendVars, sendDone, exitValue, supVars >>

\* lines 594-615: switch the mode to busy slave, describe the job in
\* host->current, determine the maximum allowed job duration, announce
SwitchBusy ==
    \/ /\ SetStatus("L594", "BUSY", "L598")
       /\ UNCHANGED << cfgStep, current, timavail, envVars, engineVars, jobVars,
                       sendVars, sendDone, exitValue, supVars >>
    \/ /\ pc = "L598"
       /\ current' = CurrentOf(job)
       /\ timallow' = TimAllow(job.timreq, timavail)
       /\ Unlock("mutexhost")
       /\ Goto("L615")
       /\ UNCHANGED << cfgStep, status, timavail, envVars, engineVars, job, jobid,
                       peerid, argin, argout, options, engWs, sendVars, ghostVars,
                       exitValue, supVars >>
    \/ /\ Announce("L615", "L617")
       /\ UNCHANGED << cfgStep, held, hostVars, envVars, engineVars, jobVars,
                       sendVars, sendDone, exitValue, supVars >>

\* mxDeserialize(job->arg): the input arguments of job j
ArgIn(j) == << "arg", j.arg >>

\* a variant of WithWatchdog that does not copy the options of the job
WithWatchdogOnly(o, master, allow) == << "masterid", master, "timallow", allow >>

\* lines 626-636: the copy of the options with masterid and timallow added
WithWatchdog(o, master, allow) == o \o << "masterid", master, "timallow", allow >>

\* a variant of ReadJob that does not release mutexjoblist
ReadJobKeepsLock ==
    /\ pc = "L617"
    /\ argin' = ArgIn(job)
    /\ jobid' = job.jobid
    /\ peerid' = job.hostid
    /\ options' = WithWatchdog(job.opt, job.hostid, timallow)
    /\ jobFailed' = 0
    /\ Goto("L641")
    /\ UNCHANGED << cfgStep, held, hostVars, envVars, matlabRunning, matlabFinished,
                    engineFailed, engineAborted, job, timallow, argout, engWs,
                    sendVars, ghostVars, exitValue, supVars >>

\* lines 617-638: deserialize the arguments and options of the job, note
\* its id and its submitter, release mutexjoblist, add the watchdog options
ReadJob ==
    /\ pc = "L617"
    /\ argin' = ArgIn(job)
    /\ jobid' = job.jobid
    /\ peerid' = job.hostid
    /\ Unlock("mutexjoblist")
    /\ options' = WithWatchdog(job.opt, job.hostid, timallow)
    /\ jobFailed' = 0
    /\ Goto("L641")
    /\ UNCHANGED << cfgStep, hostVars, envVars, matlabRunning, matlabFinished,
                    engineFailed, engineAborted, job, timallow, argout, engWs,
                    sendVars, ghostVars, exitValue, supVars >>

\* a variant of EngineStep in which every failing call aborts the engine
EngineStepAborts(at, next, k, aborts, ws, out, opts) ==
    /\ pc = at
    /\ Goto(next)
    /\ IF jobFailed # 0
          THEN UNCHANGED << jobFailed, engineAborted, engWs, argout, options >>
          ELSE \/ /\ jobFailed' = k
                  /\ engineAborted' = 1
                  /\ UNCHANGED << engWs, argout, options >>
               \/ /\ engWs' = ws
                  /\ argout' = out
                  /\ options' = opts
                  /\ UNCHANGED << jobFailed, engineAborted >>
    /\ UNCHANGED << cfgStep, held, hostVars, envVars, matlabRunning, matlabFinished,
                    engineFailed, job, jobid, peerid, timallow, argin, sendVars,
                    ghostVars, exitValue, supVars >>

\* the engine calls of lines 641-672; a call is made only if no earlier
\* step of the job failed, and each call may fail
EngineStep(at, next, k, aborts, ws, out, opts) ==
    /\ pc = at
    /\ Goto(next)
    /\ IF jobFailed # 0
          THEN UNCHANGED << jobFailed, engineAborted, engWs, argout, options >>
          ELSE \/ /\ jobFailed' = k
                  /\ engineAborted' = IF aborts THEN 1 ELSE engineAborted
                  /\ UNCHANGED << engWs, argout, options >>
               \/ /\ engWs' = ws
                  /\ argout' = out
                  /\ options' = opts
                  /\ UNCHANGED << jobFailed, engineAborted >>
    /\ UNCHANGED << cfgStep, held, hostVars, envVars, matlabRunning, matlabFinished,
                    engineFailed, job, jobid, peerid, timallow, argin, sendVars,
                    ghostVars, exitValue, supVars >>

ExecuteJob ==
    \* engPutVariable(en, "argin", argin)
    \/ EngineStep("L641", "L646", 1, FALSE,
                  [engWs EXCEPT !.argin = argin], argout, options)
    \* engPutVariable(en, "options", options)
    \/ EngineStep("L646", "L655", 2, FALSE,
                  [engWs EXCEPT !.options = options], argout, options)
    \* engEvalString(en, "[argout, options] = peerexec(argin, options);")
    \/ EngineStep("L655", "L662", 3, TRUE, PeerExec(engWs), argout, options)
    \* argout = engGetVariable(en, "argout")
    \/ EngineStep("L662", "L668", 4, TRUE, engWs, engWs.argout, options)
    \* options = engGetVariable(en, "options")
    \/ EngineStep("L668", "L676", 5, TRUE, engWs, argout, engWs.options)

\* mxCreateCellMatrix(1,1): one empty cell
ErrCell == << "[]" >>

\* a variant of LastErr that gives the message without the step
LastErrUnnamed(k) == "failed to execute the job"

\* lines 720-731: the message for the step of the job that failed
LastErr(k) ==
    CASE k = 1 -> "failed to execute the job (argin)"
      [] k = 2 -> "failed to execute the job (optin)"
      [] k = 3 -> "failed to execute the job (eval)"
      [] k = 4 -> "failed to execute the job (argout)"
      [] k = 5 -> "failed to execute the job (optout)"
      [] OTHER -> "failed to execute the job"

\* lines 706-732: the options that describe the error
ErrorOptions ==
    IF engineFailed # 0
       THEN << "lasterr", "could not start the matlab engine" >>
       ELSE << "lasterr", LastErr(jobFailed) >>

\* lines 676-732: if there was a problem executing the job, read jobid and
\* peerid from the head of the queue and make the result describe the error
ReadFailedJob ==
    \/ /\ pc = "L676"
       /\ IF engineFailed # 0 \/ jobFailed # 0
             THEN /\ Lock("mutexjoblist")
                  /\ job' = joblist[1]
                  /\ jobid' = joblist[1].jobid
                  /\ peerid' = joblist[1].hostid
                  /\ Goto("L703")
             ELSE /\ UNCHANGED << held, job, jobid, peerid >>
                  /\ Goto("L738")
       /\ UNCHANGED << cfgStep, hostVars, envVars, engineVars, timallow, argin,
                       argout, options, engWs, sendVars, ghostVars, exitValue, supVars >>
    \/ /\ pc = "L703"
       /\ Unlock("mutexjoblist")
       /\ argout' = ErrCell
       /\ options' = ErrorOptions
       /\ Goto("L738")
       /\ UNCHANGED << cfgStep, hostVars, envVars, engineVars, job, jobid, peerid,
                       timallow, argin, engWs, sendVars, ghostVars, exitValue, supVars >>

----------------------------------------------------------------------------
(* Lines 734-901: send the results back to the master *)

\* a variant of HasUds that does not compare the host names
HasUdsAnyHost(p) == IF PeerSocket(p) # "" THEN 1 ELSE 0

\* line 757
HasUds(p) == IF PeerSocket(p) # "" /\ PeerName(p) = HostName THEN 1 ELSE 0
\* line 758
HasTcp(p) == IF PeerPort(p) > 0 THEN 1 ELSE 0

\* a variant of FindPeer that goes on without testing found
FindPeerIgnoresFound ==
    \/ /\ pc = "L738"
       /\ Lock("mutexpeerlist")
       /\ wire' = << >>
       /\ connState' = "none"
       /\ Goto("L739")
       /\ UNCHANGED << cfgStep, hostVars, envVars, engineVars, jobVars, found, peer,
                       hasuds, hastcp, server, arg, opt, def, handshake, success,
                       ghostVars, exitValue, supVars >>
    \/ /\ pc = "L739"
       /\ found' = IF peerid \in peerlist THEN 1 ELSE 0
       /\ peer' = peerid
       /\ held' = held
       /\ Goto("L756")
       /\ UNCHANGED << cfgStep, hostVars, envVars, engineVars, jobVars, hasuds,
                       hastcp, server, arg, opt, def, handshake, success, wire,
                       connState, ghostVars, exitValue, supVars >>

\* lines 738-754: look the submitter up in the peer table; if it is not
\* there release the table and go to cleanup
FindPeer ==
    \/ /\ pc = "L738"
       /\ Lock("mutexpeerlist")
       /\ wire' = << >>
       /\ connState' = "none"
       /\ Goto("L739")
       /\ UNCHANGED << cfgStep, hostVars, envVars, engineVars, jobVars, found, peer,
                       hasuds, hastcp, server, arg, opt, def, handshake, success,
                       ghostVars, exitValue, supVars >>
    \/ /\ pc = "L739"
       /\ IF peerid \in peerlist
             THEN /\ found' = 1
                  /\ peer' = peerid
                  /\ held' = held
                  /\ Goto("L756")
             ELSE /\ found' = 0
                  /\ peer' = 0
                  /\ Unlock("mutexpeerlist")
                  /\ Goto("L886")
       /\ UNCHANGED << cfgStep, hostVars, envVars, engineVars, jobVars, hasuds,
                       hastcp, server, arg, opt, def, handshake, success, wire,
                       connState, ghostVars, exitValue, supVars >>

\* lines 756-787: choose the transport under mutexhost, initialise the
\* variables of cleanup; without a transport release the table and give up
ChooseTransport ==
    \/ /\ pc = "L756"
       /\ Lock("mutexhost")
       /\ Goto("L757")
       /\ UNCHANGED << cfgStep, hostVars, envVars, engineVars, jobVars, sendVars,
                       ghostVars, exitValue, supVars >>
    \/ /\ pc = "L757"
       /\ hasuds' = HasUds(peer)
       /\ hastcp' = HasTcp(peer)
       /\ Unlock("mutexhost")
       /\ Goto("L762")
       /\ UNCHANGED << cfgStep, hostVars, envVars, engineVars, jobVars, found,
                       peer, server, arg, opt, def, handshake, success, wire,
                       connState, ghostVars, exitValue, supVars >>
    \/ /\ pc = "L762"
       /\ server' = 0
       /\ def' = NULL
       /\ arg' = NULL
       /\ opt' = NULL
       /\ IF hasuds # 0
             THEN Goto("L769") /\ held' = held
             ELSE IF hastcp # 0
                     THEN Goto("L777") /\ held' = held
                     ELSE Goto("L886") /\ Unlock("mutexpeerlist")
       /\ UNCHANGED << cfgStep, hostVars, envVars, engineVars, jobVars, found,
                       peer, hasuds, hastcp, handshake, success, wire, connState,
                       ghostVars, exitValue, supVars >>

\* a variant of OpenConnection that does not release mutexpeerlist
OpenConnectionHolding(at) ==
    /\ pc = at
    /\ \/ /\ server' = 3
          /\ connState' = "open"
          /\ Goto("L792")
       \/ /\ server' = -1
          /\ connState' = connState
          /\ Goto("L886")
    /\ UNCHANGED << cfgStep, held, hostVars, envVars, engineVars, jobVars, found,
                    peer, hasuds, hastcp, arg, opt, def, handshake, success, wire,
                    ghostVars, exitValue, supVars >>

\* lines 769-790: open_uds_connection() or open_tcp_connection() returns a
\* descriptor or -1; mutexpeerlist is released after the call
OpenConnection(at) ==
    /\ pc = at
    /\ \/ /\ server' = 3
          /\ connState' = "open"
          /\ Goto("L792")
       \/ /\ server' = -1
          /\ connState' = connState
          /\ Goto("L886")
    /\ Unlock("mutexpeerlist")
    /\ UNCHANGED << cfgStep, hostVars, envVars, engineVars, jobVars, found,
                    peer, hasuds, hastcp, arg, opt, def, handshake, success, wire,
                    ghostVars, exitValue, supVars >>

Connect == OpenConnection("L769") \/ OpenConnection("L777")

\* bufread(server, &handshake, sizeof(int)): the read is short, or the
\* handshake is zero, or it is non-zero
Handshake(next) ==
    \/ handshake' = handshake /\ Goto("L886")
    \/ handshake' = 0 /\ Goto("L886")
    \/ handshake' = 1 /\ Goto(next)

\* mxSerialize(): the bytes of a value
Serialize(v) == << "mx" >> \o v

\* mxGetNumberOfElements()
NumberOfElements(buf) == Len(buf)

\* a variant of JobDef with the two sizes exchanged
JobDefSizesSwapped(id, a, o) ==
    [id |-> id, memreq |-> 0, cpureq |-> 0, timreq |-> 0,
     argsize |-> NumberOfElements(o), optsize |-> NumberOfElements(a)]

\* lines 823-829
JobDef(id, a, o) == [id |-> id, memreq |-> 0, cpureq |-> 0, timreq |-> 0,
                     argsize |-> NumberOfElements(a),
                     optsize |-> NumberOfElements(o)]

\* lines 792-833: read the first handshake, serialize the result, allocate
\* and fill the job definition; mxSerialize() and malloc() may return NULL
PrepareMessage ==
    \/ /\ pc = "L792"
       /\ Handshake("L808")
       /\ UNCHANGED << cfgStep, held, hostVars, envVars, engineVars, jobVars, found,
                       peer, hasuds, hastcp, server, arg, opt, def, success, wire,
                       connState, ghostVars, exitValue, supVars >>
    \/ /\ pc = "L808"
       /\ \/ /\ arg' = NULL
             /\ UNCHANGED << opt, def, success >>
             /\ Goto("L886")
          \/ /\ arg' = Serialize(argout)
             /\ opt' = NULL
             /\ UNCHANGED << def, success >>
             /\ Goto("L886")
          \/ /\ arg' = Serialize(argout)
             /\ opt' = Serialize(options)
             /\ def' = NULL
             /\ success' = success
             /\ Goto("L886")
          \/ /\ arg' = Serialize(argout)
             /\ opt' = Serialize(options)
             /\ def' = << JobDef(jobid, Serialize(argout), Serialize(options)) >>
             /\ success' = 1
             /\ Goto("L835")
       /\ UNCHANGED << cfgStep, held, hostVars, envVars, engineVars, jobVars, found,
                       peer, hasuds, hastcp, server, handshake, wire, connState,
                       ghostVars, exitValue, supVars >>

\* a variant of Write that does not test success
WriteAlways(frame, data) ==
    \/ /\ wire' = Append(wire, [frame |-> frame, data |-> data, full |-> TRUE])
       /\ success' = 1
    \/ /\ wire' = Append(wire, [frame |-> frame, data |-> data, full |-> FALSE])
       /\ success' = 0

\* if (success) success = (bufwrite(server, data, size) == size)
Write(frame, data) ==
    IF success # 0
       THEN \/ /\ wire' = Append(wire, [frame |-> frame, data |-> data, full |-> TRUE])
               /\ success' = 1
            \/ /\ wire' = Append(wire, [frame |-> frame, data |-> data, full |-> FALSE])
               /\ success' = 0
       ELSE UNCHANGED << wire, success >>

\* the host descriptor as it is written to a socket
HostDef == << [status |-> status, current |-> current] >>

\* a frame is written if all earlier ones were, and a handshake is read
WriteFrame(at, next, frame, data) ==
    /\ pc = at
    /\ Write(frame, data)
    /\ Handshake(next)
    /\ UNCHANGED << cfgStep, held, hostVars, envVars, engineVars, jobVars, found,
                    peer, hasuds, hastcp, server, arg, opt, def, connState,
                    ghostVars, exitValue, supVars >>

\* lines 835-883: the message (hostdef, jobdef, arg, opt) with handshakes
SendMessage ==
    \/ /\ pc = "L835"
       /\ Lock("mutexhost")
       /\ Goto("L837")
       /\ UNCHANGED << cfgStep, hostVars, envVars, engineVars, jobVars, sendVars,
                       ghostVars, exitValue, supVars >>
    \/ /\ pc = "L837"
       /\ Write("hostdef", HostDef)
       /\ Unlock("mutexhost")
       /\ Goto("L840")
       /\ UNCHANGED << cfgStep, hostVars, envVars, engineVars, jobVars, found,
                       peer, hasuds, hastcp, server, arg, opt, def, handshake,
                       connState, ghostVars, exitValue, supVars >>
    \/ /\ pc = "L840"
       /\ Handshake("L849")
       /\ UNCHANGED << cfgStep, held, hostVars, envVars, engineVars, jobVars, found,
                       peer, hasuds, hastcp, server, arg, opt, def, success, wire,
                       connState, ghostVars, exitValue, supVars >>
    \/ WriteFrame("L849", "L861", "jobdef", def)
    \/ WriteFrame("L861", "L873", "arg", arg)
    \/ WriteFrame("L873", "L886", "opt", opt)

\* The locals below are assigned again before they are read in every
\* later iteration; the model forgets their values once cleanup has run
\* (and the value of found at the next loop test).
ForgetLocals ==
    /\ job' = NoJob /\ jobid' = 0 /\ peerid' = 0 /\ timallow' = 0
    /\ argin' = NULL /\ argout' = NULL /\ options' = NULL
    /\ engWs' = EmptyWs
    /\ peer' = 0 /\ hasuds' = 0 /\ hastcp' = 0
    /\ handshake' = 0 /\ success' = 0
    /\ wire' = << >>

\* lines 885-901: close the connection, release the buffers
Cleanup ==
    /\ pc = "L886"
    /\ IF server > 0
          THEN /\ server' = 0
               /\ connState' = IF connState = "open" THEN "closed" ELSE "stray"
          ELSE UNCHANGED << server, connState >>
    /\ arg' = NULL
    /\ opt' = NULL
    /\ def' = NULL
    /\ sendDone' = TRUE
    /\ ForgetLocals
    /\ Goto("L906")
    /\ UNCHANGED << cfgStep, held, hostVars, envVars, engineVars, found, annc,
                    exitValue, supVars >>

\* clear_joblist(): every entry of the queue is removed, under mutexjoblist
clear_joblist == joblist' = << >>

\* a variant of BackToIdle that also requires that the engine was not aborted
BackToIdleUnlessAborted == engineFailed = 0 /\ engineAborted = 0

\* a variant of BackToIdle that also requires that the job was executed
BackToIdleUnlessJobFailed == engineFailed = 0 /\ jobFailed = 0

\* line 908: the slave is made available again unless the engine failed to start
BackToIdle == engineFailed = 0

\* lines 905-920: clear the joblist; unless the engine failed to start make
\* the slave available again, announce, note when the job finished
FinishJob ==
    \/ /\ pc = "L906"
       /\ "mutexjoblist" \notin held
       /\ clear_joblist
       /\ Goto(IF BackToIdle THEN "L909" ELSE "L532")
       /\ UNCHANGED << cfgStep, held, hostVars, peerlist, intake, now, engineVars,
                       jobVars, sendVars, ghostVars, exitValue, supVars >>
    \/ /\ SetStatus("L909", "IDLE", "L913")
       /\ UNCHANGED << cfgStep, current, timavail, envVars, engineVars, jobVars,
                       sendVars, sendDone, exitValue, supVars >>
    \/ ClearCurrent("L913", "L916")
    \/ /\ Announce("L916", "L532")
       /\ matlabFinished' = now
       /\ UNCHANGED << cfgStep, held, hostVars, envVars, matlabRunning, engineFailed,
                       engineAborted, jobFailed, jobVars, sendVars, sendDone,
                       exitValue, supVars >>

----------------------------------------------------------------------------
\* the steps of the main thread
Main ==
    \/ CfgSkip \/ CfgLock \/ CfgUnlock \/ StartThreads
    \/ InitIdle
    \/ LoopTest \/ EngineTimeout \/ ZombieTimeout \/ JobCount
    \/ EngineStart \/ TakeJob \/ SwitchBusy \/ ReadJob
    \/ ExecuteJob \/ ReadFailedJob
    \/ FindPeer \/ ChooseTransport \/ Connect \/ PrepareMessage \/ SendMessage
    \/ Cleanup \/ FinishJob

\* the steps of the other threads
Environment ==
    \/ IntakeAccept
    \/ \E j \in Jobs : IntakeEnqueue(j)
    \/ IntakeAbort
    \/ \E p \in PeerIds : Discover(p)
    \/ \E p \in PeerIds : Expire(p)

Next == Main \/ Environment \/ Tick

Spec == Init /\ [][Next]_vars

\* The main thread is scheduled whenever it can take a step, and the clock
\* does not stop while the thread keeps reading it.
FairSpec == Spec /\ WF_vars(Main) /\ SF_vars(Tick)

----------------------------------------------------------------------------
(* The supervisor, lines 288-352: the parent process starts one child per  *)
(* configuration and restarts the children that terminate.  The parent has *)
(* started no thread; a child is a process of its own, known to the parent *)
(* by its pid, and continues as the slave from line 367.                   *)

slaveVars == << cfgStep, held, hostVars, envVars, engineVars, jobVars, sendVars,
                ghostVars >>

\* the state of the parent when it enters the loop at line 291: cconf = pconf,
\* no configuration has a pid, host->id is as peerinit() left it
SupInit ==
    /\ pc = "L293"
    /\ cconf = 1
    /\ pid = [c \in Configs |-> 0]
    /\ hostId = FirstId
    /\ children = << >>
    /\ cfgStep = 1
    /\ held = {}
    /\ status = "ZOMBIE"
    /\ current = ZeroCurrent
    /\ timavail = UINT_MAX
    /\ joblist = << >>
    /\ peerlist = {}
    /\ intake = "idle"
    /\ now = Epoch
    /\ matlabRunning = 0
    /\ matlabFinished = 0
    /\ engineFailed = 0
    /\ engineAborted = 0
    /\ jobFailed = 0
    /\ timallow = 0
    /\ job = NoJob
    /\ jobid = 0
    /\ peerid = 0
    /\ argin = NULL
    /\ argout = NULL
    /\ options = NULL
    /\ engWs = EmptyWs
    /\ found = 0
    /\ peer = 0
    /\ hasuds = 0
    /\ hastcp = 0
    /\ server = 0
    /\ arg = NULL
    /\ opt = NULL
    /\ def = NULL
    /\ handshake = 0
    /\ success = 0
    /\ wire = << >>
    /\ connState = "none"
    /\ annc = 0
    /\ sendDone = FALSE
    /\ exitValue = -1

\* the states of a child process: it runs, it is stopped by a signal, it has
\* exited or was killed by a signal and waits to be reaped, or it is gone
ChildStates == {"running", "stopped", "exited", "signaled", "reaped"}

\* the child is a live process
Alive(p) == children[p].state \in {"running", "stopped"}

\* a variant of Restart that also restarts a child that is stopped
RestartAlsoStopped(st) == st \in {"exited", "signaled", "stopped"}

\* lines 296-303: WIFEXITED(status) or WIFSIGNALED(status) set cconf->pid = 0
Restart(st) == st \in {"exited", "signaled"}

\* lines 293-308: waitpid(cconf->pid, &status, WNOHANG) > 0 reports a child
\* that has terminated (and reaps it) or, when the system reports stops, one
\* that is stopped; cconf->pid = 0 if it exited or was signaled
Reap ==
    /\ pc = "L293"
    /\ LET p  == pid[cconf]
           st == IF p # 0 THEN children[p].state ELSE "reaped"
       IN  IF p # 0 /\ st \in {"exited", "signaled", "stopped"}
              THEN /\ children' = [children EXCEPT
                                     ![p].state = IF st = "stopped" THEN st
                                                                    ELSE "reaped"]
                   /\ pid' = IF Restart(st) THEN [pid EXCEPT ![cconf] = 0]
                                            ELSE pid
              ELSE UNCHANGED << pid, children >>
    /\ Goto("L310")
    /\ UNCHANGED << cconf, hostId, slaveVars, exitValue >>

\* line 310: if (cconf->pid==0)
NeedsChild ==
    /\ pc = "L310"
    /\ Goto(IF pid[cconf] = 0 THEN "L314" ELSE "L343")
    /\ UNCHANGED << supVars, slaveVars, exitValue >>

\* a variant of NextId that derives the id from the configuration
NextIdOfConfig == FirstId + cconf

\* line 315: host->id++ on the unsigned id
NextId == (hostId + 1) % Modulus

\* lines 313-316: increment the host id under mutexhost
IncrementId ==
    /\ pc = "L314"
    /\ "mutexhost" \notin held
    /\ hostId' = NextId
    /\ Goto("L319")
    /\ UNCHANGED << cconf, pid, children, slaveVars, exitValue >>

\* a variant of ForkFailed that goes on with the next configuration
ForkFailedContinues ==
    /\ Goto("L343")
    /\ UNCHANGED << supVars, exitValue >>

\* lines 336-340: fork() returned a negative value; perror("fork"); exit(0)
ForkFailed ==
    /\ Goto("exit")
    /\ exitValue' = 0
    /\ UNCHANGED supVars

\* lines 324-335: fork() succeeded.  The child (childpid == 0) has the host
\* id of this moment and breaks out of the loop to line 367; the parent
\* records the pid of the child in the configuration
Forked ==
    /\ children' = Append(children, [conf |-> cconf, id |-> hostId,
                                     at |-> "L367", state |-> "running"])
    /\ pid' = [pid EXCEPT ![cconf] = Len(children) + 1]
    /\ Goto("L343")
    /\ UNCHANGED << cconf, hostId, exitValue >>

\* line 319: childpid = fork()
Fork ==
    /\ pc = "L319"
    /\ (Forked \/ ForkFailed)
    /\ UNCHANGED slaveVars

\* lines 343-351: the next configuration, or the first again; sleep 0.25 s
NextConfig ==
    /\ pc = "L343"
    /\ cconf' = IF cconf < NumPeer THEN cconf + 1 ELSE 1
    /\ Goto("L293")
    /\ UNCHANGED << pid, hostId, children, slaveVars, exitValue >>

Supervisor == Reap \/ NeedsChild \/ IncrementId \/ Fork \/ NextConfig

\* child p changes its state from one of the states in from to the state to
ChildEvent(p, from, to) ==
    /\ p \in 1..Len(children)
    /\ children[p].state \in from
    /\ children' = [children EXCEPT ![p].state = to]
    /\ UNCHANGED << pc, cconf, pid, hostId, slaveVars, exitValue >>

\* line 928 (or an exit() of the slave): the child returns from main
ChildExits(p) ==
    /\ Len(children) < MaxChildren
    /\ ChildEvent(p, {"running"}, "exited")

\* the child is killed by a signal
ChildKilled(p) ==
    /\ Len(children) < MaxChildren
    /\ ChildEvent(p, {"running", "stopped"}, "signaled")

\* the child is stopped by a signal
ChildStops(p) ==
    /\ p <= Len(children)
    /\ ChildEvent(p, {"running"}, "stopped")

\* the stopped child is continued
ChildContinues(p) ==
    /\ p <= Len(children)
    /\ ChildEvent(p, {"stopped"}, "running")

Children ==
    \E p \in 1..(MaxChildren + NumPeer) :
        ChildExits(p) \/ ChildKilled(p) \/ ChildStops(p) \/ ChildContinues(p)

SupNext == Supervisor \/ Children

SupSpec == SupInit /\ [][SupNext]_vars

\* the supervisor is scheduled whenever it can take a step
SupFairSpec == SupSpec /\ WF_vars(Supervisor)

----------------------------------------------------------------------------
(* Positions of the main thread *)

\* about to make an engine call (engClose, engOpen, engPutVariable,
\* engEvalString, engGetVariable)
EngineCallPcs == {"L535", "L567", "L641", "L646", "L655", "L662", "L668"}

\* about to execute a step of the job
ExecutePcs == {"L641", "L646", "L655", "L662", "L668"}

\* about to read a handshake, to write the jobdef, arg or opt frame, or to
\* close the connection
SocketPcs == {"L792", "L840", "L849", "L861", "L873", "L886"}

\* about to open the connection to the submitter
ConnectPcs == {"L769", "L777"}

\* about to call announce_once() after a write of IDLE or ZOMBIE
AnnouncePcs == {"L529", "L556", "L581", "L916"}

\* the part of an iteration that precedes the evaluation of the job
BeforeEvalPcs == {"L535", "L547", "L549", "L553", "L556", "L561", "L567", "L571",
                  "L578", "L581", "L591", "L594", "L598", "L615", "L617", "L641",
                  "L646", "L655"}

----------------------------------------------------------------------------
(* C1 *)

\* C1: in every state in which the main thread does not hold mutexhost,
\* host->status is BUSY exactly when host->current is populated; while the
\* job is in flight host->current describes that job, which is the head of
\* the queue; under IDLE and ZOMBIE host->current is all zero; and the
\* engine executes a job only under BUSY, the one job host->current describes.
C1_StatusCurrent ==
    "mutexhost" \notin held =>
        /\ status = "BUSY" <=> current # ZeroCurrent
        /\ status \in {"IDLE", "ZOMBIE"} => current = ZeroCurrent
        /\ status = "BUSY" => \E j \in Jobs : current = CurrentOf(j)
        /\ status = "BUSY" /\ ~sendDone =>
              /\ job \in Jobs
              /\ current = CurrentOf(job)
              /\ joblist # << >> /\ job = joblist[1]
        /\ pc \in ExecutePcs => status = "BUSY" /\ current = CurrentOf(job)

\* the engine is evaluating a job while a second job waits in the queue
C1_Witness ==
    /\ pc = "L655" /\ jobFailed = 0
    /\ "mutexhost" \notin held
    /\ status = "BUSY" /\ current = CurrentOf(joblist[1])
    /\ Len(joblist) = 2 /\ joblist[2] # joblist[1]

----------------------------------------------------------------------------
(* C2 *)

\* C2: every write of host->status by the main thread is followed by
\* exactly one call of announce_once(), made while mutexhost is not held and
\* before the main thread next acquires mutexhost (or returns): a status
\* write starts the count of announces at zero, an announce is made only at
\* count zero without mutexhost, and mutexhost is acquired again only at
\* count one.
C2_OneAnnouncePerStatusWrite ==
    [][ /\ status' # status => annc' = 0 /\ "mutexhost" \in held'
        /\ annc' > annc => annc = 0 /\ "mutexhost" \notin held
        /\ ("mutexhost" \notin held /\ "mutexhost" \in held'
               /\ pc \notin {"config", "L522"}) => annc = 1
        /\ pc' = "done" => annc' = 1 ]_vars

\* BUSY has been written and announced; mutexhost is free again
C2_Witness ==
    /\ pc = "L617" /\ status = "BUSY" /\ annc = 1
    /\ "mutexhost" \notin held

----------------------------------------------------------------------------
(* C3 *)

\* C3 (as the code has it): the main thread holds at most two registry
\* mutexes at a time; it acquires a mutex while holding another one only
\* when the one acquired is mutexhost and the one held is mutexjoblist or
\* mutexpeerlist.  So mutexjoblist and mutexpeerlist are never held
\* together and the smart mutexes are held alone.
C3_HostInsideQueueOrTable ==
    [][ /\ Cardinality(held') <= 2
        /\ \A m \in held' \ held :
              held # {} => /\ m = "mutexhost"
                           /\ held \in {{"mutexjoblist"}, {"mutexpeerlist"}} ]_vars

\* C3 as stated: no two registry mutexes are held at the same time
C3_OneMutexAtATime == Cardinality(held) <= 1

\* the transport is chosen under mutexhost inside mutexpeerlist
C3_Witness == pc = "L757" /\ held = {"mutexpeerlist", "mutexhost"}

----------------------------------------------------------------------------
(* C4 *)

----------------------------------------------------------------------------
(* C5, C6 *)

\* the slave is zombie and the zombie timeout has not passed since the
\* engine failed to start
ZombieWaiting ==
    status = "ZOMBIE" /\ engineFailed # 0 /\ now - engineFailed <= zombietimeout

\* C5: the slave enters BUSY only from IDLE, with a job in the queue and
\* the engine running.
C5_BusyOnlyFromIdle ==
    [][ (status # "BUSY" /\ status' = "BUSY") =>
            status = "IDLE" /\ joblist # << >> /\ matlabRunning = 1 ]_vars

\* C6: while the slave is zombie and the zombie timeout has not passed it
\* does not call engOpen, does not execute a job, and leaves ZOMBIE only
\* for IDLE.
C6_ZombieRefusesWork ==
    [][ ZombieWaiting =>
            /\ ~(pc = "L567" /\ pc' # "L567")
            /\ pc' \notin ExecutePcs
            /\ status' \in {"ZOMBIE", "IDLE"} ]_vars

----------------------------------------------------------------------------
(* C7 *)

\* the clock of the model can still pass the zombie timeout of the failure
\* noted in engineFailed
TimeoutWithinHorizon == engineFailed + zombietimeout + TickLen <= Epoch + MaxTime

\* C7: on an engine-start failure the slave writes ZOMBIE and notes
\* engineFailed = now; the step from ZOMBIE to IDLE is taken exactly when
\* the check of line 547 finds now - engineFailed > zombietimeout (never
\* earlier), and it clears host->current, announces once and resets
\* engineFailed; and a zombie slave whose engine start does not fail again
\* eventually is IDLE.
C7_ZombieTimeout ==
    /\ [][ /\ (pc = "L571" /\ pc' = "L578") =>
                 status' = "ZOMBIE" /\ engineFailed' = now
           /\ (status = "ZOMBIE" /\ status' = "IDLE" /\ pc # "L522") =>
                 engineFailed # 0 /\ now - engineFailed > zombietimeout
           /\ (pc = "L547" /\ pc' # "L547") =>
                 (pc' = "L549" <=>
                     engineFailed # 0 /\ now - engineFailed > zombietimeout)
           /\ (pc = "L549" /\ pc' # "L549") => status' = "IDLE"
           /\ (pc = "L556" /\ pc' # "L556") =>
                 /\ status' = "IDLE" /\ current' = ZeroCurrent
                 /\ annc' = 1 /\ engineFailed' = 0 ]_vars
    /\ (status = "ZOMBIE" /\ engineFailed # 0 /\ TimeoutWithinHorizon)
          ~> (status = "IDLE" \/ pc = "L578")

\* the zombie timeout has passed, IDLE is written and about to be announced
C7_Witness ==
    /\ pc = "L556" /\ status = "IDLE" /\ current = ZeroCurrent
    /\ engineFailed # 0 /\ now - engineFailed > zombietimeout
    /\ annc = 0

----------------------------------------------------------------------------
(* C8 *)

\* C8 (as the code has it): when the result-send attempt of an iteration
\* is over and the loop test is reached, the slave is IDLE with
\* host->current cleared and one announce made, unless the engine failed to
\* start, in which case it is ZOMBIE; this is so also when the engine was
\* aborted, where IDLE is written and announced before main returns.
C8_IdleAfterSend ==
    (pc \in {"L532", "done"} /\ sendDone) =>
        IF engineFailed = 0
           THEN /\ status = "IDLE" /\ current = ZeroCurrent
                /\ annc = 1 /\ held = {}
           ELSE status = "ZOMBIE" /\ engineAborted = 0

\* C8 as stated: after the engine was aborted the slave does not switch to
\* IDLE before the process terminates
C8_NoIdleAfterAbort == engineAborted = 1 => status # "IDLE"

\* the engine was aborted, the send attempt is over and IDLE is announced
C8_Witness ==
    /\ pc = "L532" /\ sendDone /\ engineAborted = 1
    /\ status = "IDLE" /\ annc = 1

----------------------------------------------------------------------------
(* C9 *)

\* C9: engineAborted is set exactly when jobFailed is 3, 4 or 5; once it
\* is set no further iteration begins; main has returned only with
\* engineAborted set, after the result-send attempt of the failing job,
\* without an engine-start failure pending, and its value is 1.
C9_Termination ==
    /\ engineAborted \in {0, 1}
    /\ engineAborted = 1 <=> jobFailed \in 3..5
    /\ engineAborted = 1 => pc \notin BeforeEvalPcs
    /\ pc = "done" <=> exitValue # -1
    /\ pc = "done" =>
          /\ engineAborted = 1 /\ exitValue = 1
          /\ sendDone /\ engineFailed = 0

\* main has returned after a failure of engGetVariable(argout)
C9_Witness == pc = "done" /\ jobFailed = 4 /\ exitValue = 1 /\ sendDone

----------------------------------------------------------------------------
(* C10 *)

\* C10: on an engine-start failure the slave writes ZOMBIE, sends the
\* submitter a one-cell argout with the options ("lasterr", "could not
\* start the matlab engine") whatever jobFailed was left, clears the queue,
\* and leaves ZOMBIE only for IDLE and only after the zombie timeout.
C10_EngineStartFailure ==
    [][ /\ (pc = "L571" /\ pc' = "L578") => status' = "ZOMBIE"
        /\ (pc = "L703" /\ pc' = "L738" /\ engineFailed # 0) =>
              /\ argout' = ErrCell
              /\ options' = << "lasterr", "could not start the matlab engine" >>
        /\ (pc = "L906" /\ pc' # "L906") => joblist' = << >>
        /\ (status = "ZOMBIE" /\ status' # "ZOMBIE" /\ pc # "L522") =>
              /\ status' = "IDLE"
              /\ engineFailed # 0 /\ now - engineFailed > zombietimeout ]_vars

----------------------------------------------------------------------------
(* C11 *)

\* the result-send part of an iteration, up to and including cleanup
SendPcs == {"L738", "L739", "L756", "L757", "L762", "L769", "L777", "L792",
            "L808", "L835", "L837", "L840", "L849", "L861", "L873", "L886"}

\* the name of step k of the execution in the error message
StepName == << "argin", "optin", "eval", "argout", "optout" >>

\* the frames of the given kind that were written
Frames(kind) == { i \in 1..Len(wire) : wire[i].frame = kind }

\* C11: when step k of the execution of a job fails (jobFailed = k, the
\* engine having started), the later steps make no engine call; the result
\* is then a one-cell argout and the options ("lasterr", message) whose
\* message names step k; the send is attempted (the peer lookup follows),
\* and the arg and opt frames that are written carry that result.
C11_FailedStepReported ==
    /\ [][ /\ (pc \in ExecutePcs /\ jobFailed # 0) =>
                 UNCHANGED << jobFailed, engineAborted, engWs, argout, options >>
           /\ (pc \in ExecutePcs /\ jobFailed = 0 /\ jobFailed' # 0) =>
                 /\ pc = << "L641", "L646", "L655", "L662", "L668" >>[jobFailed']
                 /\ UNCHANGED << engWs, argout, options >>
           /\ (pc = "L676" /\ pc' # "L676" /\ jobFailed # 0) => pc' = "L703"
           /\ (pc = "L703" /\ pc' # "L703") => pc' = "L738"
           /\ (pc = "L703" /\ pc' = "L738" /\ engineFailed = 0) =>
                 /\ jobFailed \in 1..5
                 /\ argout' = << "[]" >>
                 /\ options' = << "lasterr",
                                  "failed to execute the job ("
                                      \o StepName[jobFailed] \o ")" >> ]_vars
    /\ [](pc \in SendPcs /\ engineFailed = 0 /\ jobFailed # 0 =>
            /\ Len(argout) = 1 /\ Len(options) = 2
            /\ options[1] = "lasterr"
            /\ options[2] = "failed to execute the job ("
                                \o StepName[jobFailed] \o ")"
            /\ \A i \in Frames("arg") : wire[i].data = Serialize(argout)
            /\ \A i \in Frames("opt") : wire[i].data = Serialize(options))

\* the options of a job failed at step 2; the error result is on the wire
C11_Witness ==
    /\ pc = "L886" /\ jobFailed = 2 /\ engineFailed = 0
    /\ Len(wire) = 4 /\ wire[4].frame = "opt" /\ wire[4].full
    /\ wire[4].data = Serialize(<< "lasterr", "failed to execute the job (optin)" >>)

----------------------------------------------------------------------------
(* C12 *)

\* C12: while a job is executed and while its result is sent, the job is
\* the head of the queue and jobid and peerid are its id and the id of its
\* submitter, on the success path and on the failure paths that read them
\* again; a connection is open only to the peer with that id; the job
\* definition carries that id, zero memreq, cpureq and timreq, and the
\* sizes of the serialized argout and options, which are the buffers whose
\* frames are written.
C12_JobDefOfExecutedJob ==
    /\ pc \in ExecutePcs =>
          /\ joblist # << >> /\ job = joblist[1]
          /\ jobid = job.jobid /\ peerid = job.hostid
    /\ pc \in SendPcs =>
          /\ joblist # << >> /\ job = joblist[1]
          /\ jobid = joblist[1].jobid /\ peerid = joblist[1].hostid
          /\ connState = "open" =>
                found = 1 /\ peer = joblist[1].hostid /\ peer \in PeerIds
          /\ def # NULL =>
                /\ def[1].id = joblist[1].jobid
                /\ def[1].memreq = 0 /\ def[1].cpureq = 0 /\ def[1].timreq = 0
                /\ arg = Serialize(argout) /\ opt = Serialize(options)
                /\ def[1].argsize = Len(arg) /\ def[1].optsize = Len(opt)
          /\ \A i \in Frames("jobdef") : def # NULL /\ wire[i].data = def
          /\ \A i \in Frames("arg") :
                wire[i].data = arg /\ Len(wire[i].data) = def[1].argsize
          /\ \A i \in Frames("opt") :
                wire[i].data = opt /\ Len(wire[i].data) = def[1].optsize

\* the definition of a failed job has been written while another job,
\* with another id, was appended to the queue
C12_Witness ==
    /\ pc = "L861" /\ jobFailed = 1
    /\ Len(joblist) = 2 /\ joblist[2].jobid # joblist[1].jobid
    /\ Len(wire) = 2 /\ wire[2].frame = "jobdef" /\ wire[2].full
    /\ wire[2].data[1].id = joblist[1].jobid
    /\ wire[2].data[1].optsize = 3 /\ wire[2].data[1].argsize = 2

----------------------------------------------------------------------------
(* C13 *)

\* the frames of the message in the order of lines 831-874
FrameOrder == << "hostdef", "jobdef", "arg", "opt" >>

\* the positions at which frame 1, 2, 3, 4 is written
WritePcs == << "L837", "L849", "L861", "L873" >>

\* about to read a handshake (at L849, L861 and L873 after the write)
HandshakePcs == {"L792", "L840", "L849", "L861", "L873"}

\* C13: the frames on the connection are a prefix of hostdef, jobdef, arg,
\* opt, and only the last one written can be short; frame i is written at
\* its own position, on the open connection, when the handshake read last
\* was non-zero and no write was short; a handshake that is short or zero
\* leads to cleanup, and the next position is reached only with a non-zero
\* handshake; cleanup closes the connection, which is open only during the
\* send.
C13_FramesInOrder ==
    /\ [][ /\ (wire' # wire /\ wire' # << >>) =>
                 /\ Len(wire') = Len(wire) + 1
                 /\ pc = WritePcs[Len(wire')]
                 /\ handshake = 1 /\ success = 1
                 /\ connState = "open"
           /\ (pc \in HandshakePcs /\ pc' # pc) =>
                 /\ pc' = "L886" \/ handshake' = 1
                 /\ handshake' = 0 => pc' = "L886"
           /\ (pc = "L886" /\ pc' # pc /\ connState = "open") =>
                 connState' = "closed" ]_vars
    /\ [](/\ Len(wire) <= 4
          /\ \A i \in 1..Len(wire) :
                /\ wire[i].frame = FrameOrder[i]
                /\ i < Len(wire) => wire[i].full
          /\ wire # << >> => connState = "open" /\ pc \in SendPcs
          /\ pc \in {"L808", "L835"} => wire = << >> /\ handshake = 1
          /\ pc \notin SendPcs => connState # "open")

\* the job definition was written short; the handshakes that followed were
\* non-zero and no further frame has been written
C13_Witness ==
    /\ pc = "L873" /\ success = 0 /\ handshake = 1 /\ connState = "open"
    /\ Len(wire) = 2 /\ wire[1].full /\ ~wire[2].full

----------------------------------------------------------------------------
(* C14 *)

\* C14: cleanup closes the connection of this attempt, once, and nothing
\* else: the descriptor it closes is the one this attempt opened, the
\* buffers it releases are the ones this attempt created (the serialized
\* argout and options and the job definition), and after it nothing is
\* left open or allocated.
C14_CleanupOwnsResources ==
    /\ [][ (pc = "L886" /\ pc' # pc) =>
              /\ connState = "open" => server > 0 /\ connState' = "closed"
              /\ server > 0 => connState = "open"
              /\ arg # NULL => arg = Serialize(argout)
              /\ opt # NULL => opt = Serialize(options)
              /\ def # NULL => def = << JobDef(jobid, arg, opt) >>
              /\ server' <= 0 /\ arg' = NULL /\ opt' = NULL /\ def' = NULL ]_vars
    /\ [](/\ connState # "stray"
          /\ sendDone => /\ connState \in {"none", "closed"}
                         /\ arg = NULL /\ opt = NULL /\ def = NULL)

----------------------------------------------------------------------------
(* C15 *)

\* C15: when the lookup does not find the submitter of the executed job in
\* the peer table, the send goes to cleanup without a connection and
\* without a frame; the attempt ends with no connection opened, the step of
\* line 906 empties the queue, and at the loop test that follows the slave
\* is IDLE with host->current cleared and one announce made.
C15_PeerNotFound ==
    /\ [][ /\ (pc = "L739" /\ pc' # pc /\ peerid \notin peerlist) =>
                 /\ pc' = "L886" /\ found' = 0 /\ held' = {}
                 /\ connState' = "none" /\ wire' = << >>
           /\ (pc = "L739" /\ pc' # pc /\ peerid \in peerlist) =>
                 pc' = "L756" /\ found' = 1
           /\ (pc = "L906" /\ pc' # pc) => joblist' = << >> ]_vars
    /\ []((pc = "L886" \/ sendDone) /\ found = 0 =>
             /\ connState \notin {"open", "closed"}
             /\ wire = << >>
             /\ (pc \in {"L532", "done"} /\ engineFailed = 0) =>
                   /\ status = "IDLE" /\ current = ZeroCurrent
                   /\ annc = 1 /\ held = {})

\* the job was executed, its submitter was not found, and the slave is
\* back to idle with nothing sent
C15_Witness ==
    /\ pc = "L532" /\ sendDone /\ found = 0
    /\ jobFailed = 0 /\ engineFailed = 0 /\ matlabRunning = 1
    /\ connState = "none" /\ status = "IDLE" /\ annc = 1

----------------------------------------------------------------------------
(* C16 *)

\* C16: the job an iteration takes is the head of the queue, and the step
\* of line 906 that ends the iteration removes that job and no other: the
\* jobs appended behind it stay in the queue, in their order.
C16_OneJobPerIteration ==
    [][ /\ (pc = "L591" /\ pc' # pc) => job' = Head(joblist)
        /\ (pc = "L906" /\ pc' # pc) =>
              joblist # << >> /\ joblist' = Tail(joblist) ]_vars

----------------------------------------------------------------------------
(* C17: the watchdog limit for all requests and advertisements.  The       *)
(* switch to busy (lines 594-615) is run from every state that differs in  *)
(* job->job->timreq and host->timavail only.                               *)

\* values of job->job->timreq: small ones and the ones next to the points
\* at which 3*timreq passes the largest int and the largest unsigned
TimReqValues == {0, 1, 10, SignBit \div 3, SignBit \div 3 + 1,
                 Modulus \div 3, Modulus \div 3 + 1, UINT_MAX}

\* values of host->timavail, "inf" (UINT_MAX) included
TimAvailValues == {0, 1, 20, 100, SignBit - 1, SignBit, UINT_MAX}

\* the main thread has taken the job at lines 591-592
TimInit ==
    /\ pc = "L594"
    /\ cfgStep = Len(CfgBlocks) + 1
    /\ held = {"mutexjoblist"}
    /\ status = "IDLE"
    /\ current = ZeroCurrent
    /\ timavail \in TimAvailValues
    /\ \E t \in TimReqValues :
          job = [hostid |-> 1, name |-> PeerName(1), jobid |-> 7, timreq |-> t,
                 arg |-> "A", opt |-> << >>]
    /\ joblist = << job >>
    /\ peerlist = {}
    /\ intake = "idle"
    /\ now = Epoch
    /\ matlabRunning = 1
    /\ matlabFinished = 0
    /\ engineFailed = 0
    /\ engineAborted = 0
    /\ jobFailed = 0
    /\ timallow = 0
    /\ jobid = 0
    /\ peerid = 0
    /\ argin = NULL
    /\ argout = NULL
    /\ options = NULL
    /\ engWs = EmptyWs
    /\ found = 0
    /\ peer = 0
    /\ hasuds = 0
    /\ hastcp = 0
    /\ server = 0
    /\ arg = NULL
    /\ opt = NULL
    /\ def = NULL
    /\ handshake = 0
    /\ success = 0
    /\ wire = << >>
    /\ connState = "none"
    /\ annc = 1
    /\ sendDone = FALSE
    /\ exitValue = -1
    /\ SlaveOfFirstConfig

TimNext == SwitchBusy

TimSpec == TimInit /\ [][TimNext]_vars

\* C17: once the limit is computed, timallow is the smaller of 3*timreq
\* and timavail, as numbers: it is not negative and nothing has wrapped.
C17_TimAllowIsMin ==
    pc \in {"L615", "L617"} =>
        timallow = IF 3 * job.timreq < timavail THEN 3 * job.timreq ELSE timavail

----------------------------------------------------------------------------
(* C18 *)

\* C18: the options handed to engPutVariable, and the options the engine
\* holds when the job is evaluated, are the n options of the job, unchanged
\* and in order, followed by "masterid", the id of the submitter,
\* "timallow" and the limit computed for this job at lines 609-611.
C18_WatchdogOptions ==
    (pc \in {"L641", "L646"} \/ (pc = "L655" /\ jobFailed = 0)) =>
        LET o == IF pc = "L655" THEN engWs.options ELSE options
            n == Len(job.opt)
        IN  /\ job = joblist[1]
            /\ Len(o) = n + 4
            /\ \A i \in 1..n : o[i] = job.opt[i]
            /\ o[n + 1] = "masterid"
            /\ o[n + 2] = job.hostid
            /\ o[n + 3] = "timallow"
            /\ o[n + 4] = timallow
            /\ timallow = TimAllow(job.timreq, timavail)

\* a job with two options of its own is about to be evaluated
C18_Witness ==
    /\ pc = "L655" /\ jobFailed = 0
    /\ job.opt = << "k", "v" >>
    /\ engWs.options = << "k", "v", "masterid", 2, "timallow", 0 >>

----------------------------------------------------------------------------
(* C19 *)

\* C19: the connection is opened over the unix domain socket exactly when
\* the descriptor of the submitter has a socket path and the host name of
\* this slave, and over tcp exactly when that is not so and its port is
\* positive; with neither the send goes to cleanup without a connection;
\* when the open call fails the send goes to cleanup as well, the other
\* transport is not tried.
C19_TransportChoice ==
    /\ [][ /\ (pc = "L762" /\ pc' # pc) =>
                 LET uds == PeerSocket(peer) # "" /\ PeerName(peer) = HostName
                     tcp == PeerPort(peer) > 0
                 IN  /\ pc' = "L769" <=> uds
                     /\ pc' = "L777" <=> ~uds /\ tcp
                     /\ pc' = "L886" <=> ~uds /\ ~tcp
                     /\ connState' = "none"
           /\ (pc \in ConnectPcs /\ pc' # pc) =>
                 \/ pc' = "L792" /\ server' > 0 /\ connState' = "open"
                 \/ pc' = "L886" /\ server' < 0 /\ connState' = "none" ]_vars
    /\ [](/\ pc \in {"L757", "L762"} \cup ConnectPcs =>
                found = 1 /\ peer = peerid /\ peer \in PeerIds
          /\ pc = "L769" => connState = "none" /\ hasuds = 1
          /\ pc = "L777" => connState = "none" /\ hasuds = 0 /\ hastcp = 1
          /\ connState = "open" => hasuds = 1 \/ hastcp = 1)

\* the unix domain socket of a submitter that also has a tcp port could
\* not be opened: the send is given up
C19_Witness ==
    /\ pc = "L886" /\ peer = 1 /\ hasuds = 1 /\ hastcp = 1
    /\ server = -1 /\ connState = "none" /\ wire = << >>

----------------------------------------------------------------------------
(* C20 *)

\* C20: the step of lines 535-544 clears matlabRunning exactly when the
\* engine is running and more than enginetimeout has passed since the last
\* job finished, whatever engClose returns; it changes neither
\* host->status nor host->current nor the queue nor the peer table, and it
\* makes no announce.
C20_IdleEngineClosed ==
    [][ (pc = "L535" /\ pc' # pc) =>
           /\ pc' = "L547"
           /\ matlabRunning' =
                 IF matlabRunning # 0 /\ now - matlabFinished > enginetimeout
                    THEN 0 ELSE matlabRunning
           /\ UNCHANGED << status, current, timavail, joblist, peerlist, annc,
                           held, matlabFinished, engineFailed >> ]_vars

\* the idle engine has just been closed: the slave is still idle and a job
\* that arrived meanwhile is still in the queue
C20_Witness ==
    /\ pc = "L547" /\ matlabRunning = 0 /\ matlabFinished # 0
    /\ engineFailed = 0 /\ now - matlabFinished > enginetimeout
    /\ status = "IDLE" /\ annc = 1 /\ joblist # << >>

----------------------------------------------------------------------------
(* C21: the life of the engine.  matlabRunning is the record the slave     *)
(* keeps of the engine: set by the engOpen() of line 567 that returned an  *)
(* engine, cleared by the engClose() of lines 536-544 and by a failed      *)
(* engOpen().                                                              *)

\* C21: at most one engine is open; engOpen() is called only when no engine
\* is running and a job is queued; and when the process has exited after an
\* engine abort, the engine it had opened has been closed.
C21_EngineLifecycle ==
    /\ matlabRunning \in {0, 1}
    /\ pc = "L567" => matlabRunning = 0 /\ jobcount > 0
    /\ pc = "done" => matlabRunning = 0

----------------------------------------------------------------------------
(* C22: the host descriptors the slave publishes.  announce_once() and the *)
(* announce thread take their snapshot of the host under mutexhost, so     *)
(* they publish the host of a state in which the main thread does not hold *)
(* mutexhost; the result send writes the host at line 837.                 *)

\* a descriptor d is whole: BUSY with a populated current, or IDLE or ZOMBIE
\* with a zeroed one
Untorn(d) ==
    /\ d.status = "BUSY" => d.current # ZeroCurrent
    /\ d.status \in {"IDLE", "ZOMBIE"} => d.current = ZeroCurrent

\* C22: a host descriptor published by the slave is never torn: the host is
\* whole whenever mutexhost is free (the states announce can snapshot), in
\* particular where the main thread calls announce_once(); the descriptor
\* written as first frame of a result send is whole; and host->status and
\* host->current change only inside a critical section on mutexhost.
C22_DescriptorNotTorn ==
    /\ [][ (status' # status \/ current' # current) =>
               "mutexhost" \in held \/ "mutexhost" \in held' ]_vars
    /\ []( /\ "mutexhost" \notin held =>
                 Untorn([status |-> status, current |-> current])
           /\ pc \in AnnouncePcs \cup {"L615"} => "mutexhost" \notin held
           /\ pc = "L837" => "mutexhost" \in held
           /\ \A i \in Frames("hostdef") : Untorn(wire[i].data[1]) )

\* the descriptor of a busy slave has been sent ahead of a result
C22_Witness ==
    /\ pc = "L849"
    /\ Frames("hostdef") # {}
    /\ wire[1].data[1].status = "BUSY"
    /\ wire[1].data[1].current = CurrentOf(joblist[1])
    /\ annc = 1

----------------------------------------------------------------------------
(* C23 to C25: the supervisor *)

\* C23: host->id changes only by the increment of line 315, by exactly 1,
\* in the step before the fork; a child has the id of the moment it was
\* forked; so the ids of the children are consecutive in spawn order,
\* starting one above the id the supervisor started with: they are strictly
\* increasing and pairwise distinct, and no restarted child has the id of
\* an earlier child.
C23_ChildIds ==
    /\ [][ /\ hostId' # hostId =>
                pc = "L314" /\ pc' = "L319" /\ hostId' = hostId + 1
           /\ Len(children') > Len(children) =>
                /\ pc = "L319"
                /\ children' = Append(children, children'[Len(children')])
                /\ children'[Len(children')].id = hostId
                /\ \A p \in 1..Len(children) : children[p].id < hostId ]_vars
    /\ []( /\ \A p, q \in 1..Len(children) :
                 p < q => children[p].id < children[q].id
           /\ \A p \in 1..Len(children) : children[p].id = FirstId + p )

\* the child of the first configuration was reaped and restarted after the
\* child of the second configuration had been started
C23_Witness ==
    /\ Len(children) >= 3
    /\ children[1].state = "reaped"
    /\ children[3].conf = children[1].conf
    /\ children[3].state = "running"
    /\ pid[children[3].conf] = 3
    /\ children[3].id > children[2].id

\* the live children of configuration c
LiveChildren(c) == { p \in 1..Len(children) : children[p].conf = c /\ Alive(p) }

\* the child recorded for configuration c has terminated and is not yet reaped
Terminated(c) ==
    pid[c] # 0 /\ children[pid[c]].state \in {"exited", "signaled"}

\* C24: a child is forked only for the configuration at hand, only when its
\* pid is 0 and it has no live child, and the pid of the new child is
\* recorded; a recorded pid is reset to 0 only when that child exited or
\* was killed; every configuration has at most one live child, the one whose
\* pid is recorded; a child is at line 367, outside the loop, and only the
\* supervisor forks.  A configuration with pid 0, and one whose child has
\* terminated, eventually gets a new child unless a fork fails.
C24_OneChildPerConfig ==
    /\ [][ /\ Len(children') > Len(children) =>
                /\ pc = "L319" /\ pid[cconf] = 0 /\ LiveChildren(cconf) = {}
                /\ children'[Len(children')].conf = cconf
                /\ children'[Len(children')].state = "running"
                /\ pid'[cconf] = Len(children')
                /\ \A c \in Configs \ {cconf} : pid'[c] = pid[c]
           /\ \A c \in Configs :
                (pid[c] # 0 /\ pid'[c] # pid[c]) =>
                    /\ pid'[c] = 0
                    /\ pc = "L293" /\ cconf = c
                    /\ children[pid[c]].state \in {"exited", "signaled"}
                    /\ children'[pid[c]].state = "reaped" ]_vars
    /\ []( /\ \A c \in Configs :
                 /\ Cardinality(LiveChildren(c)) <= 1
                 /\ LiveChildren(c) \subseteq {pid[c]}
                 /\ pid[c] # 0 => /\ pid[c] \in 1..Len(children)
                                  /\ children[pid[c]].conf = c
                                  /\ children[pid[c]].state # "reaped"
           /\ \A p \in 1..Len(children) : children[p].at = "L367" )
    /\ \A c \in Configs : (pid[c] = 0) ~> (pid[c] # 0 \/ pc = "exit")
    /\ \A c \in Configs : \A p \in 1..(MaxChildren + NumPeer) :
          (pid[c] = p /\ Terminated(c)) ~> (pid[c] > p \/ pc = "exit")

\* the child of the first configuration was killed, reaped and restarted;
\* the child of the second configuration is stopped and was left alone
C24_Witness ==
    /\ Len(children) = 3
    /\ children[1].state = "reaped" /\ children[1].conf = 1
    /\ children[2].state = "stopped" /\ pid[2] = 2
    /\ children[3].state = "running" /\ pid[1] = 3
    /\ pc = "L293" /\ cconf = 2

\* C25: a fork() that creates no child ends the supervisor at once with
\* exit(0) and records no pid; after that the supervisor forks no child,
\* changes no pid, reaps no child and does not move on, whatever happens to
\* the children that are running.
C25_ForkFailureIsFatal ==
    /\ [][ /\ (pc = "L319" /\ pc' # pc /\ Len(children') = Len(children)) =>
                /\ pc' = "exit" /\ exitValue' = 0
                /\ pid' = pid /\ pid'[cconf] = 0
                /\ children' = children
           /\ pc = "exit" =>
                /\ pc' = "exit" /\ exitValue' = exitValue
                /\ pid' = pid /\ cconf' = cconf /\ hostId' = hostId
                /\ Len(children') = Len(children)
                /\ \A p \in 1..Len(children) :
                      children'[p].state = "reaped" =>
                          children[p].state = "reaped" ]_vars
    /\ [](pc = "exit" <=> exitValue = 0)

\* the fork for the restart of the first child failed; afterwards the child
\* of the second configuration exited and is not reaped
C25_Witness ==
    /\ pc = "exit" /\ exitValue = 0
    /\ Len(children) = 2
    /\ children[1].state = "reaped" /\ pid[1] = 0 /\ cconf = 1
    /\ children[2].state = "exited" /\ pid[2] = 2

----------------------------------------------------------------------------
(* C26 *)

\* C26: at the loop test of line 532 and at the first statement of an
\* iteration, engineFailed is non-zero exactly when host->status is
\* ZOMBIE, and a non-zero engineFailed goes with matlabRunning = 0;
\* an iteration that ran a job on a started engine (engineFailed = 0) ends
\* with the status IDLE and a zeroed host->current.
C26_EngineFailedIsZombie ==
    pc \in {"L532", "L535"} =>
        /\ engineFailed # 0 <=> status = "ZOMBIE"
        /\ engineFailed # 0 => matlabRunning = 0
        /\ (pc = "L532" /\ sendDone /\ engineFailed = 0) =>
              /\ status = "IDLE" /\ current = ZeroCurrent
              /\ matlabRunning = 1

\* an iteration that could not start the engine, at a time after the first
\* tick of the clock, has sent the error and is back at the loop test
C26_Witness ==
    /\ pc = "L532" /\ sendDone
    /\ engineFailed = now /\ now > Epoch
    /\ matlabRunning = 0
    /\ status = "ZOMBIE" /\ current = ZeroCurrent
    /\ joblist = << >>

----------------------------------------------------------------------------
(* C27, under FairSpec: every engine call and socket call of the model     *)
(* returns, and the main thread is scheduled.                              *)

\* C27: whenever a job is queued, the main thread eventually is back at the
\* loop test after an iteration that sent a result or an error and cleared
\* the queue, with the status IDLE or ZOMBIE, or main has returned; the
\* status BUSY always ends; and the step of line 906 of every iteration
\* that found a job empties the queue, so that no iteration finds the same
\* job again.
C27_QueueServed ==
    /\ (joblist # << >> /\ pc # "done") ~>
          \/ pc = "L532" /\ sendDone /\ status \in {"IDLE", "ZOMBIE"}
          \/ pc = "done"
    /\ (status = "BUSY") ~> (status = "IDLE")
    /\ [][ (pc = "L906" /\ pc' # pc) => joblist' = << >> /\ sendDone ]_vars

\* an iteration has executed a job and sent its result; the queue is empty
\* and the slave is IDLE with the engine running
C27_Witness ==
    /\ pc = "L532" /\ sendDone
    /\ status = "IDLE" /\ current = ZeroCurrent
    /\ joblist = << >>
    /\ jobFailed = 0 /\ engineAborted = 0 /\ matlabRunning = 1
    /\ annc = 1

====
